---- MODULE Spec2Model ----
(***************************************************************************)
(* PGGTyper: the per-variant UniqueKmers descriptor (src/uniquekmers.cpp)  *)
(* and the parallel per-chromosome driver (src/pggtyper.cpp).              *)
(*                                                                         *)
(* Two specifications share the module:                                    *)
(*   SpecUniqueKmers  one UniqueKmers object under arbitrary call          *)
(*                    sequences of its public methods;                     *)
(*   SpecMain         main() from "prepare output files" to its return,    *)
(*                    with the thread pool running run_genotyping.         *)
(***************************************************************************)
EXTENDS Integers, Sequences, FiniteSets, TLC

(***************************************************************************)
(* Bounds of the model.                                                    *)
(***************************************************************************)
\* k-mers one descriptor may hold (cap on current_index)
MaxKmers == 2
\* allele ids are 0..MaxAlleleId (unsigned char in the source)
MaxAlleleId == 1
\* path ids are 0..MaxPathId (size_t in the source)
MaxPathId == 1
\* longest vector passed to insert_kmer (alleles) or get_path_ids (only_include)
MaxList == 2

\* chromosomes the Variant Source may declare
MaxChromosomes == 2
\* largest value given to -t
MaxRequestedThreads == 2
\* largest value of thread::hardware_concurrency() (0: not computable)
MaxHardwareThreads == 2
\* UniqueKmers objects compute_unique_kmers creates for one chromosome
MaxVariants == 1

AlleleIds == 0..MaxAlleleId
PathIds == 0..MaxPathId
\* k-mer indices a caller may ask for; MaxKmers itself is always out of range
KmerIndices == 0..MaxKmers

\* CopyNumber(p0, p1, p2): probabilities in hundredths
CopyNumbers == { <<0, 100, 0>>, <<100, 0, 0>> }
\* values passed to set_coverage, in hundredths
Coverages == { 0, 1500 }

RECURSIVE SeqsUpTo(_, _)
SeqsUpTo(S, n) ==
    IF n = 0 THEN { <<>> }
    ELSE LET shorter == SeqsUpTo(S, n - 1)
         IN  shorter \cup { Append(s, x) : s \in shorter, x \in S }

Range(s) == { s[i] : i \in 1..Len(s) }

\* the keys of a std::map<size_t/unsigned char, _> in iteration (ascending) order
RECURSIVE AscendingKeys(_)
AscendingKeys(S) ==
    IF S = {} THEN <<>>
    ELSE LET m == CHOOSE x \in S : \A y \in S : x <= y
         IN  <<m>> \o AscendingKeys(S \ {m})

VARIABLES
    \* ---- UniqueKmers object ----
    current_index,        \* size_t current_index
    kmer_to_copynumber,   \* vector<CopyNumber>
    alleles,              \* map<unsigned char, KmerPath>
    path_to_allele,       \* map<size_t, unsigned char>
    local_coverage,       \* double local_coverage
    nr_insert_kmer_calls, \* history: insert_kmer calls made so far
    inserted_cns,         \* history: the CopyNumber of each insert_kmer call, in call order
    \* ---- main() and its inputs ----
    chromosomes,          \* vector<string> chromosomes, as get_chromosomes filled it
    effective_N,          \* size_t effective_N, the value of option -n
    only_genotyping,      \* flag -g
    only_phasing,         \* flag -p
    requested_threads,    \* the value given to -t
    hardware_threads,     \* what thread::hardware_concurrency() returns
    nr_core_threads,      \* size_t nr_core_threads
    main_pc,              \* where main() is
    post_idx,             \* position of the posting loop in chromosomes
    write_it,             \* position of the write loop in results.result
    proc,                 \* "running", "exit0", "abort" (assert), "terminate" (uncaught exception)
    geno_file,            \* genotyping VCF: "unopened", "open", "closed"
    phase_file,           \* phasing VCF
    geno_out,             \* chromosomes passed to write_genotypes_of, in call order
    phase_out,            \* chromosomes passed to write_phasing_of, in call order
    \* ---- struct Results ----
    holder,               \* result_mutex: the task that holds it, or NoOwner
    result,               \* map<string, vector<GenotypingResult>>
    runtimes,             \* map<string, double>
    \* ---- thread pool and run_genotyping ----
    queue,                \* tasks posted and not yet taken by a pool thread
    worker,               \* pool thread -> the task it runs, or Idle
    pc,                   \* task (chromosome) -> where its run_genotyping call is
    ran_by,               \* history: task -> the pool threads that took it
    uk_alloc,             \* task -> UniqueKmers objects created for it
    uk_freed,             \* task -> delete calls made on them
    hmm_calls             \* history: the arguments of every HMM construction

ukVars == << current_index, kmer_to_copynumber, alleles, path_to_allele,
             local_coverage, nr_insert_kmer_calls, inserted_cns >>

\* the fields of the object itself
ukObject == << current_index, kmer_to_copynumber, alleles, path_to_allele,
               local_coverage >>

mainVars == << chromosomes, effective_N, only_genotyping, only_phasing, requested_threads,
              hardware_threads, nr_core_threads, main_pc, post_idx, write_it, proc,
              geno_file, phase_file, geno_out, phase_out, holder, result, runtimes,
              queue, worker, pc, ran_by, uk_alloc, uk_freed, hmm_calls >>

vars == << ukVars, mainVars >>

(***************************************************************************)
(* KmerPath (kmerpath.hpp is not among the sources; modelled from the      *)
(* data model of the specification): a set of positions.                   *)
(***************************************************************************)
KmerPathEmpty == {}
set_position(kp, index) == kp \cup {index}
get_position(kp, index) == IF index \in kp THEN 1 ELSE 0
nr_kmers(kp) == Cardinality(kp)
\* KmerPath + KmerPath -> CopyNumberAssignment, position by position
KmerPathPlus(kp1, kp2) ==
    [ i \in 0..(MaxKmers - 1) |-> get_position(kp1, i) + get_position(kp2, i) ]

Returned(ret) == [ ok |-> TRUE, ret |-> ret ]
Threw(what) == [ ok |-> FALSE, ret |-> what ]

(***************************************************************************)
(* UniqueKmers::UniqueKmers                                                *)
(***************************************************************************)
UniqueKmersInit ==
    /\ current_index = 0
    /\ kmer_to_copynumber = <<>>
    /\ alleles = << >>
    /\ path_to_allele = << >>
    /\ local_coverage = 0
    /\ nr_insert_kmer_calls = 0
    /\ inserted_cns = <<>>

(***************************************************************************)
(* Mutators                                                                *)
(***************************************************************************)
\* this->alleles[allele_id] = KmerPath();
insert_empty_allele(allele_id) ==
    /\ alleles' = [ x \in (DOMAIN alleles) \cup {allele_id} |->
                      IF x = allele_id THEN KmerPathEmpty ELSE alleles[x] ]
    /\ UNCHANGED << current_index, kmer_to_copynumber, path_to_allele,
                    local_coverage, nr_insert_kmer_calls, inserted_cns >>

\* insert_path written with map::insert, which keeps the binding a path has
insert_path_keeps_binding(path_id, allele_id) ==
    /\ path_to_allele' = [ x \in (DOMAIN path_to_allele) \cup {path_id} |->
                             IF x \in DOMAIN path_to_allele
                             THEN path_to_allele[x] ELSE allele_id ]
    /\ UNCHANGED << current_index, kmer_to_copynumber, alleles,
                    local_coverage, nr_insert_kmer_calls, inserted_cns >>

\* this->path_to_allele[path_id] = allele_id;
insert_path(path_id, allele_id) ==
    /\ path_to_allele' = [ x \in (DOMAIN path_to_allele) \cup {path_id} |->
                             IF x = path_id THEN allele_id ELSE path_to_allele[x] ]
    /\ UNCHANGED << current_index, kmer_to_copynumber, alleles,
                    local_coverage, nr_insert_kmer_calls, inserted_cns >>

\* for (auto const& a: alleles) this->alleles[a].set_position(index);
\* map::operator[] default-constructs the KmerPath of a key that is absent
RECURSIVE MarkAlleles(_, _, _)
MarkAlleles(m, as, index) ==
    IF as = <<>> THEN m
    ELSE LET a == Head(as)
             cur == IF a \in DOMAIN m THEN m[a] ELSE KmerPathEmpty
             m2 == [ x \in (DOMAIN m) \cup {a} |->
                       IF x = a THEN set_position(cur, index) ELSE m[x] ]
         IN  MarkAlleles(m2, Tail(as), index)

\* insert_kmer whose loop over the alleles stops after the first allele
insert_kmer_marks_first_allele(cn, as) ==
    /\ current_index < MaxKmers
    /\ LET index == current_index
       IN  /\ kmer_to_copynumber' = Append(kmer_to_copynumber, cn)
           /\ alleles' = MarkAlleles(alleles, IF as = <<>> THEN <<>> ELSE << Head(as) >>, index)
           /\ current_index' = current_index + 1
    /\ nr_insert_kmer_calls' = nr_insert_kmer_calls + 1
    /\ inserted_cns' = Append(inserted_cns, cn)
    /\ UNCHANGED << path_to_allele, local_coverage >>

\* insert_kmer with "current_index += 1" moved into the loop over the alleles
insert_kmer_counts_alleles(cn, as) ==
    /\ current_index < MaxKmers
    /\ LET index == current_index
       IN  /\ kmer_to_copynumber' = Append(kmer_to_copynumber, cn)
           /\ alleles' = MarkAlleles(alleles, as, index)
           /\ current_index' = current_index + Len(as)
    /\ nr_insert_kmer_calls' = nr_insert_kmer_calls + 1
    /\ inserted_cns' = Append(inserted_cns, cn)
    /\ UNCHANGED << path_to_allele, local_coverage >>

insert_kmer(cn, as) ==
    /\ current_index < MaxKmers
    /\ LET index == current_index
       IN  /\ kmer_to_copynumber' = Append(kmer_to_copynumber, cn)
           /\ alleles' = MarkAlleles(alleles, as, index)
           /\ current_index' = current_index + 1
    /\ nr_insert_kmer_calls' = nr_insert_kmer_calls + 1
    /\ inserted_cns' = Append(inserted_cns, cn)
    /\ UNCHANGED << path_to_allele, local_coverage >>

\* this->local_coverage = local_coverage;
set_coverage(cov) ==
    /\ local_coverage' = cov
    /\ UNCHANGED << current_index, kmer_to_copynumber, alleles, path_to_allele,
                    nr_insert_kmer_calls, inserted_cns >>

(***************************************************************************)
(* Lookups: the value each returns (or the exception it throws) in the     *)
(* current state of the object.  None of them writes a field, so they are  *)
(* operators over the state and not steps.                                 *)
(***************************************************************************)
\* kmer_on_path without the check of kmer_index against current_index
kmer_on_path_unchecked(kmer_index, path_index) ==
    IF path_index \notin DOMAIN path_to_allele
    THEN Threw("runtime_error")
    ELSE LET allele_id == path_to_allele[path_index]
         IN  IF allele_id \in DOMAIN alleles
             THEN Returned(get_position(alleles[allele_id], kmer_index) > 0)
             ELSE Threw("out_of_range")

kmer_on_path(kmer_index, path_index) ==
    IF path_index \notin DOMAIN path_to_allele
    THEN Threw("runtime_error")
    ELSE IF kmer_index < current_index
         THEN LET allele_id == path_to_allele[path_index]
              IN  IF allele_id \in DOMAIN alleles   \* map::at
                  THEN Returned(get_position(alleles[allele_id], kmer_index) > 0)
                  ELSE Threw("out_of_range")
         ELSE Threw("runtime_error")

\* combine_paths adding the first allele's KmerPath to itself
combine_paths_first_twice(allele_id1, allele_id2) ==
    IF allele_id1 \in DOMAIN alleles /\ allele_id2 \in DOMAIN alleles
    THEN Returned(KmerPathPlus(alleles[allele_id1], alleles[allele_id1]))
    ELSE Threw("out_of_range")

combine_paths(allele_id1, allele_id2) ==
    IF allele_id1 \in DOMAIN alleles /\ allele_id2 \in DOMAIN alleles   \* map::at
    THEN Returned(KmerPathPlus(alleles[allele_id1], alleles[allele_id2]))
    ELSE Threw("out_of_range")

get_copynumber_of(kmer_index) ==
    IF kmer_index < current_index
    THEN Returned(kmer_to_copynumber[kmer_index + 1])
    ELSE Threw("runtime_error")

size == Returned(current_index)

get_nr_paths == Returned(Cardinality(DOMAIN path_to_allele))

\* the loop over only_include: one push_back per element found in path_to_allele
RECURSIVE IncludeLoop(_, _, _)
IncludeLoop(only_include, p, a) ==
    IF only_include = <<>> THEN << p, a >>
    ELSE LET x == Head(only_include)
         IN  IF x \in DOMAIN path_to_allele
             THEN IncludeLoop(Tail(only_include), Append(p, x),
                              Append(a, path_to_allele[x]))
             ELSE IncludeLoop(Tail(only_include), p, a)

\* filter: [given |-> FALSE] is only_include = nullptr
get_path_ids(filter) ==
    IF filter.given
    THEN Returned(IncludeLoop(filter.list, <<>>, <<>>))
    ELSE LET keys == AscendingKeys(DOMAIN path_to_allele)
         IN  Returned(<< keys, [ k \in 1..Len(keys) |-> path_to_allele[keys[k]] ] >>)

get_allele_ids == Returned(AscendingKeys(DOMAIN alleles))

get_coverage == Returned(local_coverage)

kmers_on_alleles == Returned([ x \in DOMAIN alleles |-> nr_kmers(alleles[x]) ])

\* the vectors of allele ids passed to insert_kmer
AlleleLists == SeqsUpTo(AlleleIds, MaxList)

Filters == { [ given |-> FALSE, list |-> <<>> ] } \cup
           { [ given |-> TRUE, list |-> f ] : f \in SeqsUpTo(PathIds, MaxList) }

(***************************************************************************)
(* The driver: src/pggtyper.cpp                                            *)
(***************************************************************************)
\* Chromosome names are strings; a string is modelled as the sequence of its
\* characters' codes: <<1>> is "1", <<1, 0>> is "10", <<2>> is "2".
AllChromosomeNames == << <<1>>, <<2>>, <<1, 0>> >>
ChromosomeNames == { AllChromosomeNames[i] : i \in 1..Len(AllChromosomeNames) }

\* std::string operator< : lexicographic on the characters
RECURSIVE StrLess(_, _)
StrLess(a, b) ==
    IF b = <<>> THEN FALSE
    ELSE IF a = <<>> THEN TRUE
    ELSE IF Head(a) < Head(b) THEN TRUE
    ELSE IF Head(b) < Head(a) THEN FALSE
    ELSE StrLess(Tail(a), Tail(b))

\* the keys of a std::map<string, _> in iteration order
RECURSIVE MapOrder(_)
MapOrder(S) ==
    IF S = {} THEN <<>>
    ELSE LET m == CHOOSE x \in S : \A y \in S \ {x} : StrLess(x, y)
         IN  <<m>> \o MapOrder(S \ {m})

\* std::map::insert: a key that is present keeps its value
MapInsert(m, k, v) ==
    IF k \in DOMAIN m THEN m
    ELSE [ x \in (DOMAIN m) \cup {k} |-> IF x = k THEN v ELSE m[x] ]

Min(a, b) == IF a < b THEN a ELSE b

Idle == <<>>
NoOwner == <<>>
\* option -n: its default "25000" (also the initialiser of line 82), or a
\* value given on the command line
EffectiveNs == { 5, 25000 }
\* the literal 1.26 handed to the HMM, in hundredths
DistanceMultiplier == 126

\* lists of distinct chromosome names, as a Variant Source declares them
ChromosomeLists ==
    { l \in SeqsUpTo(ChromosomeNames, MaxChromosomes) :
        \A i, j \in 1..Len(l) : i # j => l[i] # l[j] }

Tasks == Range(chromosomes)

MainInit ==
    /\ chromosomes \in ChromosomeLists
    /\ effective_N \in EffectiveNs
    /\ only_genotyping \in BOOLEAN
    /\ only_phasing \in BOOLEAN
    /\ requested_threads \in 0..MaxRequestedThreads
    /\ hardware_threads \in 0..MaxHardwareThreads
    /\ nr_core_threads = requested_threads
    /\ main_pc = "open"
    /\ post_idx = 1
    /\ write_it = 1
    /\ proc = "running"
    /\ geno_file = "unopened"
    /\ phase_file = "unopened"
    /\ geno_out = <<>>
    /\ phase_out = <<>>
    /\ holder = NoOwner
    /\ result = << >>
    /\ runtimes = << >>
    /\ queue = <<>>
    /\ worker = << >>
    /\ pc = [ c \in Tasks |-> "unposted" ]
    /\ ran_by = [ c \in Tasks |-> {} ]
    /\ uk_alloc = [ c \in Tasks |-> 0 ]
    /\ uk_freed = [ c \in Tasks |-> 0 ]
    /\ hmm_calls = {}

(***************************************************************************)
(* run_genotyping, executed by pool thread t for the task it took          *)
(***************************************************************************)
\* an exception leaves run_genotyping: nothing in the task, the pool or main
\* catches it, so it leaves the pool thread's function and the runtime calls
\* std::terminate.  Whether the stack is unwound first is implementation-
\* defined.  Without unwinding, std::terminate follows the throw at once:
TerminateAtThrow(c) ==
    /\ pc' = [ pc EXCEPT ![c] = "failed" ]
    /\ proc' = "terminate"

\* with unwinding, the destructors of run_genotyping's locals run first and the
\* process stays alive, the other threads running on, until the exception has
\* left the function
Unwind(c) ==
    /\ pc' = [ pc EXCEPT ![c] = "unwinding" ]
    /\ UNCHANGED proc

Uncaught(c) == TerminateAtThrow(c) \/ Unwind(c)

\* the unwound exception has left run_genotyping and reaches std::terminate
ReachTerminate(t) ==
    /\ proc = "running"
    /\ t \in DOMAIN worker
    /\ worker[t] # Idle
    /\ pc[worker[t]] = "unwinding"
    /\ pc' = [ pc EXCEPT ![worker[t]] = "failed" ]
    /\ proc' = "terminate"
    /\ UNCHANGED << chromosomes, effective_N, only_genotyping, only_phasing, requested_threads,
                    hardware_threads, nr_core_threads, main_pc, post_idx, write_it,
                    geno_file, phase_file, geno_out, phase_out, holder, result,
                    runtimes, queue, worker, ran_by, uk_alloc, uk_freed, hmm_calls >>

Running(t) ==
    /\ proc = "running"
    /\ t \in DOMAIN worker
    /\ worker[t] # Idle

\* a pool thread takes the oldest posted task
TakeTask(t) ==
    /\ proc = "running"
    /\ t \in DOMAIN worker
    /\ worker[t] = Idle
    /\ queue # <<>>
    /\ LET c == Head(queue)
       IN  /\ worker' = [ worker EXCEPT ![t] = c ]
           /\ pc' = [ pc EXCEPT ![c] = "compute" ]
           /\ ran_by' = [ ran_by EXCEPT ![c] = @ \cup {t} ]
    /\ queue' = Tail(queue)
    /\ UNCHANGED << chromosomes, effective_N, only_genotyping, only_phasing, requested_threads,
                    hardware_threads, nr_core_threads, main_pc, post_idx, write_it,
                    proc, geno_file, phase_file, geno_out, phase_out, holder, result,
                    runtimes, uk_alloc, uk_freed, hmm_calls >>

\* kmer_computer.compute_unique_kmers(&unique_kmers);
ComputeUniqueKmers(t) ==
    /\ Running(t)
    /\ pc[worker[t]] = "compute"
    /\ LET c == worker[t]
       IN  \/ \E n \in 1..MaxVariants :
                /\ uk_alloc' = [ uk_alloc EXCEPT ![c] = n ]
                /\ pc' = [ pc EXCEPT ![c] = "hmm" ]
                /\ UNCHANGED proc
           \/ \E n \in 0..MaxVariants :      \* throws after creating n objects
                /\ uk_alloc' = [ uk_alloc EXCEPT ![c] = n ]
                /\ Uncaught(c)
    /\ UNCHANGED << chromosomes, effective_N, only_genotyping, only_phasing, requested_threads,
                    hardware_threads, nr_core_threads, main_pc, post_idx, write_it,
                    geno_file, phase_file, geno_out, phase_out, holder, result,
                    runtimes, queue, worker, ran_by, uk_freed, hmm_calls >>

\* the arguments of HMM hmm(&unique_kmers, !only_phasing, !only_genotyping, 1.26, false, effective_N)
\* the constructor call of line 36 with the two pass flags exchanged
HMMArguments_flags_exchanged(c) ==
    [ chromosome |-> c,
      run_genotyping |-> ~only_genotyping,
      run_phasing |-> ~only_phasing,
      distance_multiplier |-> DistanceMultiplier,
      use_uniform_transitions |-> FALSE,
      effective_N |-> effective_N ]

HMMArguments(c) ==
    [ chromosome |-> c,
      run_genotyping |-> ~only_phasing,
      run_phasing |-> ~only_genotyping,
      distance_multiplier |-> DistanceMultiplier,
      use_uniform_transitions |-> FALSE,
      effective_N |-> effective_N ]

\* HMM hmm(...): the constructor runs the requested passes, or throws
ConstructHMM(t) ==
    /\ Running(t)
    /\ pc[worker[t]] = "hmm"
    /\ LET c == worker[t]
       IN  /\ hmm_calls' = hmm_calls \cup { HMMArguments(c) }
           /\ \/ pc' = [ pc EXCEPT ![c] = "lock_result" ] /\ UNCHANGED proc
              \/ Uncaught(c)
    /\ UNCHANGED << chromosomes, effective_N, only_genotyping, only_phasing, requested_threads,
                    hardware_threads, nr_core_threads, main_pc, post_idx, write_it,
                    geno_file, phase_file, geno_out, phase_out, holder, result,
                    runtimes, queue, worker, ran_by, uk_alloc, uk_freed >>

\* run_genotyping without the lock_guard of line 39
LockResult_without_mutex(t) ==
    /\ Running(t)
    /\ pc[worker[t]] = "lock_result"
    /\ pc' = [ pc EXCEPT ![worker[t]] = "store_result" ]
    /\ UNCHANGED << chromosomes, effective_N, only_genotyping, only_phasing, requested_threads,
                    hardware_threads, nr_core_threads, main_pc, post_idx, write_it,
                    proc, geno_file, phase_file, geno_out, phase_out, holder, result,
                    runtimes, queue, worker, ran_by, uk_alloc, uk_freed, hmm_calls >>

\* lock_guard<mutex> lock_result (results->result_mutex);   (line 39)
LockResult(t) ==
    /\ Running(t)
    /\ pc[worker[t]] = "lock_result"
    /\ holder = NoOwner
    /\ holder' = worker[t]
    /\ pc' = [ pc EXCEPT ![worker[t]] = "store_result" ]
    /\ UNCHANGED << chromosomes, effective_N, only_genotyping, only_phasing, requested_threads,
                    hardware_threads, nr_core_threads, main_pc, post_idx, write_it,
                    proc, geno_file, phase_file, geno_out, phase_out, result,
                    runtimes, queue, worker, ran_by, uk_alloc, uk_freed, hmm_calls >>

\* results->result.insert(pair(chromosome, move(hmm.get_genotyping_result())));
\* and the end of the block releases the lock; get_genotyping_result returns a
\* vector by value and may throw.  The lock is released by the lock_guard's
\* destructor: without unwinding the process ends with the mutex still held by
\* the task, with unwinding the mutex is released while the process is alive
\* and a waiting task can take it before std::terminate is reached
StoreResult(t) ==
    /\ Running(t)
    /\ pc[worker[t]] = "store_result"
    /\ LET c == worker[t]
       IN  \/ /\ result' = MapInsert(result, c, c)
              /\ pc' = [ pc EXCEPT ![c] = "destroy" ]
              /\ holder' = NoOwner
              /\ UNCHANGED proc
           \/ /\ UNCHANGED result
              /\ \/ TerminateAtThrow(c) /\ UNCHANGED holder
                 \/ Unwind(c) /\ holder' = NoOwner
    /\ UNCHANGED << chromosomes, effective_N, only_genotyping, only_phasing, requested_threads,
                    hardware_threads, nr_core_threads, main_pc, post_idx, write_it,
                    geno_file, phase_file, geno_out, phase_out,
                    runtimes, queue, worker, ran_by, uk_alloc, uk_freed, hmm_calls >>

\* for (i ...) { delete unique_kmers[i]; unique_kmers[i] = nullptr; }
DestroyUniqueKmers(t) ==
    /\ Running(t)
    /\ pc[worker[t]] = "destroy"
    /\ LET c == worker[t]
       IN  /\ uk_freed' = [ uk_freed EXCEPT ![c] = @ + uk_alloc[c] ]
           /\ pc' = [ pc EXCEPT ![c] = "lock_runtime" ]
    /\ UNCHANGED << chromosomes, effective_N, only_genotyping, only_phasing, requested_threads,
                    hardware_threads, nr_core_threads, main_pc, post_idx, write_it,
                    proc, geno_file, phase_file, geno_out, phase_out, holder, result,
                    runtimes, queue, worker, ran_by, uk_alloc, hmm_calls >>

\* lock_guard<mutex> lock_result (results->result_mutex);   (line 48)
LockRuntime(t) ==
    /\ Running(t)
    /\ pc[worker[t]] = "lock_runtime"
    /\ holder = NoOwner
    /\ holder' = worker[t]
    /\ pc' = [ pc EXCEPT ![worker[t]] = "store_runtime" ]
    /\ UNCHANGED << chromosomes, effective_N, only_genotyping, only_phasing, requested_threads,
                    hardware_threads, nr_core_threads, main_pc, post_idx, write_it,
                    proc, geno_file, phase_file, geno_out, phase_out, result,
                    runtimes, queue, worker, ran_by, uk_alloc, uk_freed, hmm_calls >>

\* results->runtimes.insert(pair(chromosome, timer.get_total_time())); the
\* function returns, the lock is released and the pool thread is free again
StoreRuntime(t) ==
    /\ Running(t)
    /\ pc[worker[t]] = "store_runtime"
    /\ LET c == worker[t]
       IN  /\ runtimes' = MapInsert(runtimes, c, "time")
           /\ pc' = [ pc EXCEPT ![c] = "done" ]
    /\ holder' = NoOwner
    /\ worker' = [ worker EXCEPT ![t] = Idle ]
    /\ UNCHANGED << chromosomes, effective_N, only_genotyping, only_phasing, requested_threads,
                    hardware_threads, nr_core_threads, main_pc, post_idx, write_it,
                    proc, geno_file, phase_file, geno_out, phase_out, result,
                    queue, ran_by, uk_alloc, uk_freed, hmm_calls >>

(***************************************************************************)
(* main(), from "prepare output files" on                                  *)
(***************************************************************************)
\* if (! only_phasing) open_genotyping_outfile; if (! only_genotyping) open_phasing_outfile
OpenOutfiles ==
    /\ proc = "running"
    /\ main_pc = "open"
    /\ geno_file' = IF ~only_phasing THEN "open" ELSE geno_file
    /\ phase_file' = IF ~only_genotyping THEN "open" ELSE phase_file
    /\ main_pc' = "threads"
    /\ UNCHANGED << chromosomes, effective_N, only_genotyping, only_phasing, requested_threads,
                    hardware_threads, nr_core_threads, post_idx, write_it, proc,
                    geno_out, phase_out, holder, result, runtimes, queue, worker,
                    pc, ran_by, uk_alloc, uk_freed, hmm_calls >>

\* available_threads = min(hardware_concurrency(), chromosomes.size());
\* if (nr_core_threads > available_threads) nr_core_threads = available_threads;
DetermineThreads ==
    /\ proc = "running"
    /\ main_pc = "threads"
    /\ LET available_threads == Min(hardware_threads, Len(chromosomes))
       IN  nr_core_threads' = IF nr_core_threads > available_threads
                              THEN available_threads
                              ELSE nr_core_threads
    /\ main_pc' = "pool"
    /\ UNCHANGED << chromosomes, effective_N, only_genotyping, only_phasing, requested_threads,
                    hardware_threads, post_idx, write_it, proc, geno_file, phase_file,
                    geno_out, phase_out, holder, result, runtimes, queue, worker,
                    pc, ran_by, uk_alloc, uk_freed, hmm_calls >>

\* Results results; boost::asio::thread_pool threadPool(nr_core_threads);
CreatePool ==
    /\ proc = "running"
    /\ main_pc = "pool"
    /\ worker' = [ t \in 1..nr_core_threads |-> Idle ]
    /\ main_pc' = IF Len(chromosomes) = 0 THEN "join" ELSE "post"
    /\ UNCHANGED << chromosomes, effective_N, only_genotyping, only_phasing, requested_threads,
                    hardware_threads, nr_core_threads, post_idx, write_it, proc,
                    geno_file, phase_file, geno_out, phase_out, holder, result,
                    runtimes, queue, pc, ran_by, uk_alloc, uk_freed, hmm_calls >>

\* one iteration of: for (auto chromosome : chromosomes) boost::asio::post(...)
PostTask ==
    /\ proc = "running"
    /\ main_pc = "post"
    /\ LET c == chromosomes[post_idx]
       IN  /\ queue' = Append(queue, c)
           /\ pc' = [ pc EXCEPT ![c] = "queued" ]
    /\ post_idx' = post_idx + 1
    /\ main_pc' = IF post_idx = Len(chromosomes) THEN "join" ELSE "post"
    /\ UNCHANGED << chromosomes, effective_N, only_genotyping, only_phasing, requested_threads,
                    hardware_threads, nr_core_threads, write_it, proc, geno_file,
                    phase_file, geno_out, phase_out, holder, result, runtimes,
                    worker, ran_by, uk_alloc, uk_freed, hmm_calls >>

\* threadPool.join(): returns when the pool's threads have run out of work and
\* ended; a pool of no threads has nothing to wait for and runs no task
Join ==
    /\ proc = "running"
    /\ main_pc = "join"
    /\ \/ nr_core_threads = 0
       \/ queue = <<>> /\ \A t \in DOMAIN worker : worker[t] = Idle
    /\ main_pc' = "assert"
    /\ UNCHANGED << chromosomes, effective_N, only_genotyping, only_phasing, requested_threads,
                    hardware_threads, nr_core_threads, post_idx, write_it, proc,
                    geno_file, phase_file, geno_out, phase_out, holder, result,
                    runtimes, queue, worker, pc, ran_by, uk_alloc, uk_freed,
                    hmm_calls >>

\* assert (results.result.size() == chromosomes.size()); a build with NDEBUG
\* has no assertion and goes on
AssertResults ==
    /\ proc = "running"
    /\ main_pc = "assert"
    /\ \/ /\ Cardinality(DOMAIN result) = Len(chromosomes)
          /\ main_pc' = "write"
          /\ UNCHANGED proc
       \/ /\ Cardinality(DOMAIN result) # Len(chromosomes)
          /\ \/ proc' = "abort" /\ UNCHANGED main_pc
             \/ main_pc' = "write" /\ UNCHANGED proc
    /\ write_it' = 1
    /\ UNCHANGED << chromosomes, effective_N, only_genotyping, only_phasing, requested_threads,
                    hardware_threads, nr_core_threads, post_idx, geno_file,
                    phase_file, geno_out, phase_out, holder, result, runtimes,
                    queue, worker, pc, ran_by, uk_alloc, uk_freed, hmm_calls >>

\* one iteration of: for (auto it = results.result.begin(); it != end(); ++it)
WriteResults ==
    /\ proc = "running"
    /\ main_pc = "write"
    /\ write_it <= Cardinality(DOMAIN result)
    /\ LET first == MapOrder(DOMAIN result)[write_it]
       IN  /\ geno_out' = IF ~only_phasing THEN Append(geno_out, first) ELSE geno_out
           /\ phase_out' = IF ~only_genotyping THEN Append(phase_out, first) ELSE phase_out
    /\ write_it' = write_it + 1
    /\ UNCHANGED << chromosomes, effective_N, only_genotyping, only_phasing, requested_threads,
                    hardware_threads, nr_core_threads, main_pc, post_idx, proc,
                    geno_file, phase_file, holder, result, runtimes, queue, worker,
                    pc, ran_by, uk_alloc, uk_freed, hmm_calls >>

\* if (! only_phasing) close_genotyping_outfile; if (! only_genotyping) close_phasing_outfile
CloseOutfiles ==
    /\ proc = "running"
    /\ main_pc = "write"
    /\ write_it > Cardinality(DOMAIN result)
    /\ geno_file' = IF ~only_phasing THEN "closed" ELSE geno_file
    /\ phase_file' = IF ~only_genotyping THEN "closed" ELSE phase_file
    /\ main_pc' = "summary"
    /\ UNCHANGED << chromosomes, effective_N, only_genotyping, only_phasing, requested_threads,
                    hardware_threads, nr_core_threads, post_idx, write_it, proc,
                    geno_out, phase_out, holder, result, runtimes, queue, worker,
                    pc, ran_by, uk_alloc, uk_freed, hmm_calls >>

\* for (auto chromosome : chromosomes) results.runtimes.at(chromosome) ...;
\* return 0.  map::at throws out_of_range for a missing key and main catches nothing
Summary ==
    /\ proc = "running"
    /\ main_pc = "summary"
    /\ IF \A i \in 1..Len(chromosomes) : chromosomes[i] \in DOMAIN runtimes
       THEN proc' = "exit0"
       ELSE proc' = "terminate"
    /\ main_pc' = "done"
    /\ UNCHANGED << chromosomes, effective_N, only_genotyping, only_phasing, requested_threads,
                    hardware_threads, nr_core_threads, post_idx, write_it,
                    geno_file, phase_file, geno_out, phase_out, holder, result,
                    runtimes, queue, worker, pc, ran_by, uk_alloc, uk_freed,
                    hmm_calls >>

PoolThreads == 1..Min(MaxRequestedThreads, MaxHardwareThreads)

(***************************************************************************)
(* Specifications                                                          *)
(***************************************************************************)
\* the driver's variables while only a UniqueKmers object is studied
MainAbsent ==
    /\ chromosomes = <<>>
    /\ effective_N = 25000
    /\ only_genotyping = FALSE
    /\ only_phasing = FALSE
    /\ requested_threads = 0
    /\ hardware_threads = 0
    /\ nr_core_threads = 0
    /\ main_pc = "absent"
    /\ post_idx = 1
    /\ write_it = 1
    /\ proc = "absent"
    /\ geno_file = "unopened"
    /\ phase_file = "unopened"
    /\ geno_out = <<>>
    /\ phase_out = <<>>
    /\ holder = NoOwner
    /\ result = << >>
    /\ runtimes = << >>
    /\ queue = <<>>
    /\ worker = << >>
    /\ pc = << >>
    /\ ran_by = << >>
    /\ uk_alloc = << >>
    /\ uk_freed = << >>
    /\ hmm_calls = {}

UKNext ==
    \/ \E a \in AlleleIds : insert_empty_allele(a) /\ UNCHANGED mainVars
    \/ \E p \in PathIds, a \in AlleleIds : insert_path(p, a) /\ UNCHANGED mainVars
    \/ \E cn \in CopyNumbers, as \in AlleleLists :
          insert_kmer(cn, as) /\ UNCHANGED mainVars
    \/ \E cov \in Coverages : set_coverage(cov) /\ UNCHANGED mainVars

UKInit == UniqueKmersInit /\ MainAbsent

SpecUniqueKmers == UKInit /\ [][UKNext]_vars

MainNext ==
    \/ OpenOutfiles /\ UNCHANGED ukVars
    \/ DetermineThreads /\ UNCHANGED ukVars
    \/ CreatePool /\ UNCHANGED ukVars
    \/ PostTask /\ UNCHANGED ukVars
    \/ Join /\ UNCHANGED ukVars
    \/ AssertResults /\ UNCHANGED ukVars
    \/ WriteResults /\ UNCHANGED ukVars
    \/ CloseOutfiles /\ UNCHANGED ukVars
    \/ Summary /\ UNCHANGED ukVars
    \/ \E t \in PoolThreads : TakeTask(t) /\ UNCHANGED ukVars
    \/ \E t \in PoolThreads : ComputeUniqueKmers(t) /\ UNCHANGED ukVars
    \/ \E t \in PoolThreads : ConstructHMM(t) /\ UNCHANGED ukVars
    \/ \E t \in PoolThreads : LockResult(t) /\ UNCHANGED ukVars
    \/ \E t \in PoolThreads : StoreResult(t) /\ UNCHANGED ukVars
    \/ \E t \in PoolThreads : DestroyUniqueKmers(t) /\ UNCHANGED ukVars
    \/ \E t \in PoolThreads : LockRuntime(t) /\ UNCHANGED ukVars
    \/ \E t \in PoolThreads : StoreRuntime(t) /\ UNCHANGED ukVars
    \/ \E t \in PoolThreads : ReachTerminate(t) /\ UNCHANGED ukVars

\* the driver alone: the UniqueKmers variables stay as constructed
DriverInit == MainInit /\ UniqueKmersInit

SpecMain == DriverInit /\ [][MainNext]_vars

(***************************************************************************)
(* Properties                                                              *)
(***************************************************************************)
IsPrefix(s, t) == Len(s) <= Len(t) /\ \A i \in 1..Len(s) : s[i] = t[i]

\* C1: whatever the declared chromosome list, the pool size and the order in
\* which the workers finish, the write loop of main passes the chromosomes to
\* write_genotypes_of and write_phasing_of in the declared order: at every
\* moment what has been written is a prefix of the declared list.
C1_OutputInDeclaredOrder ==
    /\ IsPrefix(geno_out, chromosomes)
    /\ IsPrefix(phase_out, chromosomes)

\* C2: a call insert_kmer(cn, as) whose vector as names an allele that was not
\* registered fails: it appends no k-mer and adds no allele, so it leaves the
\* object as it was.
C2_InsertKmerRejectsUnregistered ==
    [][ \A cn \in CopyNumbers, as \in AlleleLists :
          (insert_kmer(cn, as) /\ ~(Range(as) \subseteq DOMAIN alleles))
             => UNCHANGED ukObject ]_vars

\* C3: after any sequence of insert_empty_allele, insert_path and insert_kmer
\* calls every bound path names an allele present in alleles, and
\* kmer_on_path(i, p) returns a boolean for every bound path p and every i < K.
C3_BoundPathsResolve ==
    \A p \in DOMAIN path_to_allele :
        /\ path_to_allele[p] \in DOMAIN alleles
        /\ \A i \in 0..(current_index - 1) : kmer_on_path(i, p).ok

\* C4: kmer_on_path and get_copynumber_of are bounds-checked.  For every index
\* i >= K both throw the "does not exist" runtime_error; kmer_on_path throws it
\* as well for a path with no binding; for i < K get_copynumber_of(i) returns
\* the CopyNumber given to the i-th insert_kmer call.  (Lookups read the state
\* and write nothing, so a failing lookup leaves the object as it was.)
C4_LookupsBoundsChecked ==
    /\ \A i \in KmerIndices :
          LET cn == get_copynumber_of(i)
          IN  IF i < current_index
              THEN cn.ok /\ cn.ret = inserted_cns[i + 1]
              ELSE ~cn.ok /\ cn.ret = "runtime_error"
    /\ \A i \in KmerIndices, p \in PathIds :
          LET r == kmer_on_path(i, p)
          IN  (i >= current_index \/ p \notin DOMAIN path_to_allele)
                 => (~r.ok /\ r.ret = "runtime_error")

\* C4's case: two k-mers with different copy numbers were inserted, one path is
\* bound and one is not
C4_Witness ==
    /\ current_index = 2
    /\ inserted_cns[1] # inserted_cns[2]
    /\ get_copynumber_of(1).ok
    /\ ~get_copynumber_of(2).ok
    /\ DOMAIN path_to_allele = {0}
    /\ path_to_allele[0] \in DOMAIN alleles
    /\ kmer_on_path(1, 0).ok
    /\ ~kmer_on_path(2, 0).ok
    /\ ~kmer_on_path(0, 1).ok

\* C5: when run_genotyping fails for a chromosome, the failing chromosome has
\* no entry in the results, the process does not exit with 0, and the process
\* ends only after main has passed threadPool.join() with every other task run
\* to its end.
C5_FailurePropagatesAfterJoin ==
    \A c \in Tasks :
        pc[c] = "failed" =>
            /\ c \notin DOMAIN result
            /\ proc # "exit0"
            /\ proc # "running" =>
                  /\ main_pc \in { "assert", "write", "summary", "done" }
                  /\ \A d \in Tasks \ {c} : pc[d] \in { "done", "failed" }

\* C6: on every exit path of run_genotyping, the failing ones included, every
\* UniqueKmers object created for the chromosome is deleted exactly once, and
\* none is deleted before the result of the HMM has been stored.
C6_UniqueKmersReleasedOnEveryExit ==
    \A c \in Tasks :
        /\ uk_freed[c] <= uk_alloc[c]
        /\ pc[c] \in { "done", "failed" } => uk_freed[c] = uk_alloc[c]
        /\ uk_freed[c] > 0 => c \in DOMAIN result

\* C7: for every combination of -g and -p the distance multiplier handed to
\* the HMM is 1.26 when the genotyping pass is run and 1.0 otherwise.
C7_DistanceMultiplierFollowsMode ==
    \A h \in hmm_calls :
        h.distance_multiplier = IF h.run_genotyping THEN 126 ELSE 100

\* what C8 expects of get_path_ids: the bound paths (those of the filter, when
\* one is given) in ascending order of path id, each once, with their alleles
PanelOrdered(filter) ==
    LET keep == IF filter.given
                THEN (DOMAIN path_to_allele) \cap Range(filter.list)
                ELSE DOMAIN path_to_allele
        keys == AscendingKeys(keep)
    IN  << keys, [ k \in 1..Len(keys) |-> path_to_allele[keys[k]] ] >>

\* C8: get_path_ids returns the bound paths with their alleles in panel order
\* (ascending path id), each path at most once, without a filter and with any
\* include filter, whatever the filter's order, repetitions or unbound ids.
C8_GetPathIdsPanelOrder ==
    \A f \in Filters :
        LET r == get_path_ids(f)
        IN  r.ok /\ r.ret = PanelOrdered(f)

\* C9: K = current_index, the value of size(), equals the number of
\* insert_kmer calls made so far and the length of kmer_to_copynumber; since
\* only insert_kmer counts a call, no other operation changes K.
C9_SizeCountsInsertedKmers ==
    /\ current_index = nr_insert_kmer_calls
    /\ current_index = Len(kmer_to_copynumber)
    /\ size.ok /\ size.ret = nr_insert_kmer_calls

\* C9's case: k-mers were inserted and every other mutator has acted as well
C9_Witness ==
    /\ nr_insert_kmer_calls = 2
    /\ size.ret = 2
    /\ DOMAIN alleles = AlleleIds
    /\ DOMAIN path_to_allele # {}
    /\ local_coverage # 0

\* C10: for registered alleles a and b (a = b included) and every i < K,
\* combine_paths(a, b) holds alleles[a].get(i) + alleles[b].get(i) at position
\* i, a value in {0, 1, 2}, and combine_paths(b, a) is the same assignment.
C10_CombinePathsPositionalSum ==
    \A a \in DOMAIN alleles, b \in DOMAIN alleles :
        LET r == combine_paths(a, b)
        IN  /\ r.ok
            /\ \A i \in 0..(current_index - 1) :
                  /\ r.ret[i] = get_position(alleles[a], i) + get_position(alleles[b], i)
                  /\ r.ret[i] \in 0..2
            /\ combine_paths(b, a) = r

\* C10's case: two alleles that differ on a k-mer, so that the sums 0, 1 and 2
\* all occur
C10_Witness ==
    /\ current_index = 2
    /\ DOMAIN alleles = {0, 1}
    /\ alleles[0] = {0, 1}
    /\ alleles[1] = {1}
    /\ combine_paths(0, 1).ret[0] = 1
    /\ combine_paths(0, 1).ret[1] = 2
    /\ combine_paths(1, 1).ret[0] = 0

\* C11: insert_path(p, a) binds path p to allele a and replaces any binding p
\* had: afterwards path_to_allele[p] = a, every other path keeps its binding,
\* get_nr_paths() counts each bound path once (one more only if p was unbound),
\* and alleles, K and the copy numbers of the k-mers are as before.  Stated of
\* the call made in any reachable state with any arguments: the state the call
\* leads to has these properties.
C11_InsertPathBindsAndReplaces ==
    \A p \in PathIds, a \in AlleleIds :
        ENABLED ( /\ insert_path(p, a)
                  /\ DOMAIN path_to_allele' = (DOMAIN path_to_allele) \cup {p}
                  /\ path_to_allele'[p] = a
                  /\ \A q \in (DOMAIN path_to_allele) \ {p} :
                        path_to_allele'[q] = path_to_allele[q]
                  /\ get_nr_paths'.ret =
                        get_nr_paths.ret + (IF p \in DOMAIN path_to_allele THEN 0 ELSE 1)
                  /\ get_nr_paths'.ret = Cardinality(DOMAIN path_to_allele')
                  /\ UNCHANGED << alleles, current_index, kmer_to_copynumber >> )

\* C11's case: both paths are bound, to different alleles, on an object that
\* holds alleles and k-mers
C11_Witness ==
    /\ DOMAIN path_to_allele = {0, 1}
    /\ path_to_allele[0] = 1
    /\ path_to_allele[1] = 0
    /\ get_nr_paths.ret = 2
    /\ current_index = 2
    /\ DOMAIN alleles = {0, 1}

\* the tasks that are at a statement writing results->result or ->runtimes
Writers == { c \in Tasks : pc[c] \in { "store_result", "store_runtime" } }

\* C12: in every interleaving of the workers, a write to the result map or the
\* runtimes map is made by the task that holds result_mutex, and adds that
\* task's key only; at most one task holds the mutex; no task is about to
\* lock the mutex while it holds it; a mutex that is held belongs to a task
\* at a writing statement, or to a task whose uncaught exception ended the
\* process; and when main reads the maps (from the assertion after
\* threadPool.join() on) no pool thread runs a task and the mutex is free.
C12_ResultsWrittenUnderMutex ==
    /\ [] ( /\ Cardinality(Writers) <= 1
            /\ \A c \in Tasks :
                  /\ c \in Writers => holder = c
                  /\ holder = c => \/ c \in Writers
                                   \/ pc[c] = "failed" /\ proc = "terminate"
                  /\ pc[c] \in { "lock_result", "lock_runtime" } => holder # c
            /\ main_pc \in { "assert", "write", "summary", "done" } =>
                  /\ holder = NoOwner
                  /\ \A t \in DOMAIN worker : worker[t] = Idle )
    /\ [][ /\ result' # result =>
                \E c \in Tasks : /\ holder = c
                                 /\ pc[c] = "store_result"
                                 /\ DOMAIN result' = (DOMAIN result) \cup {c}
           /\ runtimes' # runtimes =>
                \E c \in Tasks : /\ holder = c
                                 /\ pc[c] = "store_runtime"
                                 /\ DOMAIN runtimes' = (DOMAIN runtimes) \cup {c} ]_vars

\* C12's case: two tasks run at once, one holds the mutex and is about to
\* write while the other waits to lock it
C12_Witness ==
    \E c \in Tasks, d \in Tasks :
        /\ c # d
        /\ holder = c
        /\ pc[c] = "store_runtime"
        /\ pc[d] = "lock_result"
        /\ d \notin DOMAIN result
        /\ c \in DOMAIN result

\* the chromosomes for which an HMM was constructed with the genotyping pass
\* (resp. the phasing pass) switched on
GenotypingPassRun == { h.chromosome : h \in { g \in hmm_calls : g.run_genotyping } }
PhasingPassRun == { h.chromosome : h \in { g \in hmm_calls : g.run_phasing } }

\* C13: every HMM is constructed with run_genotyping = !only_phasing and
\* run_phasing = !only_genotyping; with -g alone the phasing output is never
\* opened, written or closed, with -p alone the genotyping output is never
\* opened, written or closed; and once main has closed the outputs, an output
\* holds the records of a chromosome exactly when that pass was run for the
\* chromosome, so that with neither flag both outputs hold every result.
C13_OnlyRequestedPassRunsAndIsWritten ==
    /\ \A h \in hmm_calls :
          /\ h.run_genotyping = ~only_phasing
          /\ h.run_phasing = ~only_genotyping
    /\ (only_genotyping /\ ~only_phasing) =>
          /\ \A h \in hmm_calls : h.run_genotyping /\ ~h.run_phasing
          /\ phase_file = "unopened"
          /\ phase_out = <<>>
    /\ (only_phasing /\ ~only_genotyping) =>
          /\ \A h \in hmm_calls : ~h.run_genotyping /\ h.run_phasing
          /\ geno_file = "unopened"
          /\ geno_out = <<>>
    /\ main_pc \in { "summary", "done" } =>
          /\ geno_file = IF only_phasing THEN "unopened" ELSE "closed"
          /\ phase_file = IF only_genotyping THEN "unopened" ELSE "closed"
          /\ Range(geno_out) = GenotypingPassRun
          /\ Range(phase_out) = PhasingPassRun
          /\ (~only_genotyping /\ ~only_phasing) =>
                /\ Range(geno_out) = DOMAIN result
                /\ Range(phase_out) = DOMAIN result

\* C13's case: a run with -g alone over two chromosomes that exited normally
C13_Witness ==
    /\ only_genotyping
    /\ ~only_phasing
    /\ proc = "exit0"
    /\ Len(geno_out) = 2
    /\ Cardinality(hmm_calls) = 2
    /\ phase_file = "unopened"

\* C14: in every reachable object state, insert_kmer(cn, S) with all alleles
\* of S registered appends cn at position K, sets position K in the KmerPath
\* of exactly the alleles listed in S (once, also for an allele listed twice),
\* keeps every position below K of every KmerPath, every earlier copy number,
\* the set of registered alleles and path_to_allele, and increases K by one.
C14_InsertKmerEffectAndFrame ==
  [] ( current_index < MaxKmers =>
        \A cn \in CopyNumbers, S \in AlleleLists :
            Range(S) \subseteq DOMAIN alleles =>
            ENABLED ( /\ insert_kmer(cn, S)
                      /\ current_index' = current_index + 1
                      /\ Len(kmer_to_copynumber') = current_index'
                      /\ kmer_to_copynumber'[current_index + 1] = cn
                      /\ \A i \in 1..current_index :
                            kmer_to_copynumber'[i] = kmer_to_copynumber[i]
                      /\ DOMAIN alleles' = DOMAIN alleles
                      /\ \A a \in DOMAIN alleles :
                            /\ get_position(alleles'[a], current_index) =
                                  (IF a \in Range(S) THEN 1 ELSE 0)
                            /\ nr_kmers(alleles'[a]) =
                                  nr_kmers(alleles[a]) + (IF a \in Range(S) THEN 1 ELSE 0)
                            /\ \A i \in 0..(current_index - 1) :
                                  get_position(alleles'[a], i) = get_position(alleles[a], i)
                      /\ path_to_allele' = path_to_allele ) )

\* C14's case: one k-mer was inserted for allele 0 only while allele 1 was
\* registered as well and a path is bound; a further insert_kmer is possible
C14_Witness ==
    /\ current_index = 1
    /\ current_index < MaxKmers
    /\ DOMAIN alleles = {0, 1}
    /\ get_position(alleles[0], 0) = 1
    /\ get_position(alleles[1], 0) = 0
    /\ kmer_to_copynumber = << <<100, 0, 0>> >>
    /\ DOMAIN path_to_allele # {}

\* C15: once the pool size is determined it is min(requested -t value,
\* hardware concurrency, number of chromosomes); no chromosome is ever taken
\* by more than one worker; and when threadPool.join() has returned for a
\* non-empty chromosome list, every posted chromosome task has completed, run
\* by exactly one worker.
C15_EveryTaskRunsOnceAndJoinReturns ==
    /\ main_pc \notin { "open", "threads" } =>
          /\ nr_core_threads =
                Min(requested_threads, Min(hardware_threads, Len(chromosomes)))
          /\ nr_core_threads <= Len(chromosomes)
    /\ \A c \in Tasks : Cardinality(ran_by[c]) <= 1
    /\ (main_pc \in { "assert", "write", "summary", "done" } /\ chromosomes # <<>>) =>
          \A c \in Tasks : pc[c] = "done" /\ Cardinality(ran_by[c]) = 1

\* C16: whenever main is at the assertion after threadPool.join(), the result
\* map and the runtimes map each hold exactly the listed chromosomes, so that
\* the assertion holds and runtimes.at(chromosome) finds every chromosome; and
\* in every state the chromosomes with a runtime entry are among those with a
\* result entry.
C16_ResultsCompleteAtAssertion ==
    /\ DOMAIN runtimes \subseteq DOMAIN result
    /\ main_pc \in { "assert", "write", "summary" } =>
          /\ Cardinality(DOMAIN result) = Len(chromosomes)
          /\ DOMAIN result = Range(chromosomes)
          /\ DOMAIN runtimes = Range(chromosomes)

\* C17: in every reachable object state every position set in an allele's
\* KmerPath is below K, kmers_on_alleles() has one entry per registered
\* allele (the keys of get_allele_ids), each entry is at most K, and calling
\* insert_empty_allele(a) for a registered allele a leaves a's entry, the
\* number of k-mers inserted with a listed, as it was.
C17_KmersOnAllelesCountsInsertedKmers ==
    /\ \A a \in DOMAIN alleles : \A i \in KmerIndices :
          get_position(alleles[a], i) = 1 => i < current_index
    /\ DOMAIN kmers_on_alleles.ret = Range(get_allele_ids.ret)
    /\ \A a \in DOMAIN kmers_on_alleles.ret : kmers_on_alleles.ret[a] <= current_index
    /\ \A a \in DOMAIN alleles :
          ENABLED ( /\ insert_empty_allele(a)
                    /\ kmers_on_alleles'.ret[a] = kmers_on_alleles.ret[a] )
====
